---------------------------- MODULE Spec2Model ----------------------------
(***************************************************************************)
(* Searcher orchestration layer of the dense-retrieval engine              *)
(* (src/warp/searcher.py): construction (configuration merge, validity     *)
(* check, backend selection), configure, encode, search, search_all and    *)
(* dense_search with the adaptive breadth policy and the result trimming.  *)
(*                                                                         *)
(* An optional value is a sequence: <<>> is Python's None (unset) and      *)
(* <<v>> is the set value v.  centroid_score_threshold is held in          *)
(* hundredths (0.5 is 50, 0.45 is 45, 0.4 is 40).                          *)
(***************************************************************************)
EXTENDS Integers, Sequences, FiniteSets, TLC

\* ------------------------------------------------------------------ bounds
\* longest id/score list the backend returns
MaxBackendLen == 3
\* worker counts torch.get_num_threads() may report: 1..MaxThreads
MaxThreads == 2
\* GPU counts the process may see: 0..MaxGpus
MaxGpus == 1

\* ------------------------------------------------------- optional values
None == <<>>

Some(v) == <<v>>

IsSet(x) == x # None

Val(x) == x[1]

\* Python truthiness of an optional boolean option (None and False are falsy)
Truthy(x) == x = Some(TRUE)

\* x or y
OrElse(x, y) == IF IsSet(x) THEN x ELSE y

Min(a, b) == IF a <= b THEN a ELSE b

Max(a, b) == IF a >= b THEN a ELSE b

\* ------------------------------------------------------------ Configuration
Options ==
  {"ncells", "centroid_score_threshold", "ndocs", "total_visible_gpus",
   "load_index_with_mmap", "checkpoint", "collection", "index_root",
   "query_maxlen"}

Breadth == {"ncells", "centroid_score_threshold", "ndocs"}

\* a configuration object in which exactly the options of kw are set
Partial(kw) == [o \in Options |-> IF o \in DOMAIN kw THEN Some(kw[o]) ELSE None]

NoConfig == [o \in Options |-> None]

\* index of the first source of the list that has option o set, 0 if none
RECURSIVE FirstSet(_, _, _)
FirstSet(sources, o, i) ==
  IF i > Len(sources) THEN 0
  ELSE IF IsSet(sources[i][o]) THEN i
  ELSE FirstSet(sources, o, i + 1)

\* ColBERTConfig.from_existing(*sources): one effective configuration; for
\* each option the first source of the list that has it set wins, and an
\* option no source sets stays unset
from_existing(sources) ==
  [o \in Options |->
     LET i == FirstSet(sources, o, 1)
     IN  IF i = 0 THEN None ELSE sources[i][o]]

\* ColBERTConfig.configure(**kw_args): the named options take the given
\* values (None included), the others are left alone
ConfigConfigure(cfg, kw) ==
  [o \in Options |-> IF o \in DOMAIN kw THEN kw[o] ELSE cfg[o]]

\* Collection.cast: a path becomes a Collection object over that path, a
\* Collection object is returned as it is
Path(p) == [kind |-> "path", name |-> p]

CollectionOf(p) == [kind |-> "Collection", name |-> p]

CollectionCast(x) ==
  IF IsSet(x) /\ Val(x).kind = "path" THEN Some(CollectionOf(Val(x).name))
  ELSE x

\* WARPRunConfig.colbert(): the ColBERT options carried by the run
\* configuration, without the engine-only fields t_prime, bound, fused_ext
colbert(warp_config) == warp_config.options

\* --------------------------------------------------- construction inputs
\* the engine-only fields a WARPRunConfig carries
WarpFields ==
  { [t_prime |-> None, bound |-> None, fused_ext |-> FALSE],
    [t_prime |-> Some(1000), bound |-> Some(128), fused_ext |-> TRUE] }

\* configurations a caller may pass: each listed option set or left unset
CallerOptions ==
  { [NoConfig EXCEPT !["checkpoint"] = c, !["collection"] = l,
                     !["ndocs"] = n, !["load_index_with_mmap"] = m] :
      c \in {None, Some("ck_caller")},
      l \in {None, Some(Path("col_caller"))},
      n \in {None, Some(2000)},
      m \in {None, Some(TRUE)} }

\* config argument: None, a ColBERTConfig or a WARPRunConfig
CallerConfigs ==
  { [kind |-> "None", options |-> NoConfig,
     t_prime |-> None, bound |-> None, fused_ext |-> FALSE] }
  \cup
  { [kind |-> "ColBERTConfig", options |-> o,
     t_prime |-> None, bound |-> None, fused_ext |-> FALSE] :
      o \in CallerOptions }
  \cup
  { [kind |-> "WARPRunConfig", options |-> o,
     t_prime |-> w.t_prime, bound |-> w.bound, fused_ext |-> w.fused_ext] :
      o \in CallerOptions, w \in WarpFields }

\* Run().config: the process-level configuration
RunConfigs ==
  { [NoConfig EXCEPT !["total_visible_gpus"] = Some(g),
                     !["index_root"] = Some("root_run"),
                     !["query_maxlen"] = Some(32),
                     !["ndocs"] = n] :
      g \in 0..MaxGpus, n \in {None, Some(512)} }

\* the configuration stored with the index
IndexConfigs ==
  { [NoConfig EXCEPT !["checkpoint"] = c, !["collection"] = l] :
      c \in {None, Some("ck_index")},
      l \in {None, Some(Path("col_index"))} }

\* the configuration stored with the checkpoint
CheckpointConfigs ==
  { NoConfig,
    [NoConfig EXCEPT !["checkpoint"] = Some("ck_self"), !["ndocs"] = Some(100)] }

\* every constructor call of the model
ConstructArgs ==
  [ config : CallerConfigs,
    run : RunConfigs,
    index_config : IndexConfigs,
    checkpoint_config : CheckpointConfigs,
    index : {"idx"},
    checkpoint : {None, Some("ck_arg")},
    collection : {None, Some(Path("col_arg"))},
    index_root : {None, Some("root_arg")},
    warp_engine : BOOLEAN,
    num_threads : 1..MaxThreads ]

\* ----------------------------------------------------------------- state
VARIABLES
  args,         \* the constructor's arguments and the stores it reads
  pc,           \* "Uninitialized", "Ready" or "Failed" (constructor raised)
  error,        \* the exception the last call raised, None if it returned
  config,       \* self.config
  index,        \* self.index
  checkpoint,   \* self.checkpoint
  collection,   \* self.collection
  warp_engine,  \* self.warp_engine
  ranker,       \* self.ranker
  request,      \* the last call made on the Searcher: its name and arguments
  encodes,      \* the queryFromText invocations of the last call, in order
  calls,        \* the rank invocations of the last call, in order
  result,       \* what the last call returned
  explicit,     \* per breadth option, the value the last configure of it gave
  inflight      \* per caller, the dense_search call it is in the middle of

vars == <<args, pc, error, config, index, checkpoint, collection, warp_engine,
          ranker, request, encodes, calls, result, explicit, inflight>>

svars == <<request, encodes, calls, result, explicit>>

\* the callers that may share one Searcher
Callers == {"t1", "t2"}

\* a caller that is in no dense_search call
Idle == [at |-> "idle", o |-> 0, k |-> None, wrote |-> {}]

NoRanker ==
  [variant |-> "none", index |-> None, use_gpu |-> FALSE,
   load_index_with_mmap |-> None, t_prime |-> None, bound |-> None,
   fused_decompression_merge |-> None]

NoCheckpoint == [name |-> None, loaded |-> FALSE, cuda |-> FALSE, query_maxlen |-> None]

\* IndexScorerWARP(index, config, use_gpu, load_index_with_mmap, t_prime, bound)
IndexScorerWARP(idx, use_gpu, mmap, wc) ==
  [variant |-> "IndexScorerWARP", index |-> idx, use_gpu |-> use_gpu,
   load_index_with_mmap |-> mmap, t_prime |-> wc.t_prime, bound |-> wc.bound,
   fused_decompression_merge |-> None]

\* ParallelIndexScorerWARP(..., fused_decompression_merge=warp_config.fused_ext)
ParallelIndexScorerWARP(idx, use_gpu, mmap, wc) ==
  [variant |-> "ParallelIndexScorerWARP", index |-> idx, use_gpu |-> use_gpu,
   load_index_with_mmap |-> mmap, t_prime |-> wc.t_prime, bound |-> wc.bound,
   fused_decompression_merge |-> Some(wc.fused_ext)]

\* IndexScorer(index, use_gpu, load_index_with_mmap)
IndexScorer(idx, use_gpu, mmap) ==
  [variant |-> "IndexScorer", index |-> idx, use_gpu |-> use_gpu,
   load_index_with_mmap |-> mmap, t_prime |-> None, bound |-> None,
   fused_decompression_merge |-> None]

\* lines 74-85: the backend chosen from warp_engine and the worker count;
\* variant "error" stands for the AttributeError of warp_config.t_prime when
\* warp_config is None
SelectRanker(a, idx, use_gpu, mmap) ==
  IF a.warp_engine
  THEN IF a.config.kind # "WARPRunConfig"
       THEN [NoRanker EXCEPT !.variant = "error"]
       ELSE IF a.num_threads = 1
            THEN IndexScorerWARP(idx, use_gpu, mmap, a.config)
            ELSE ParallelIndexScorerWARP(idx, use_gpu, mmap, a.config)
  ELSE IndexScorer(idx, use_gpu, mmap)

\* line 71: memory-mapped index together with GPU compute
InvalidCombination(use_gpu, mmap) == Truthy(mmap) /\ use_gpu

\* the process configuration put in front of the caller's
InitialConfig_ProcessFirst(caller, run) == from_existing(<<run>> \o caller)

\* line 45: the caller's configuration (none when config is None) merged
\* with the process configuration
InitialConfig(caller, run) == from_existing(caller \o <<run>>)

\* lines 54-56: the effective configuration before the constructor's configure
EffectiveConfig(checkpoint_config, index_config, initial_config) ==
  from_existing(<<checkpoint_config, index_config, initial_config>>)

\* Searcher.__init__: the fields as they stand when the constructor returns
\* or raises
Constructed(a) ==
  LET caller == IF a.config.kind = "None" THEN <<>>
                ELSE IF a.config.kind = "WARPRunConfig" THEN <<colbert(a.config)>>
                ELSE <<a.config.options>>
      initial_config == InitialConfig(caller, a.run)
      index_root == OrElse(a.index_root, initial_config["index_root"])
      idx == Some(<<Val(index_root), a.index>>)
      ckpt_name == OrElse(a.checkpoint, a.index_config["checkpoint"])
      merged == EffectiveConfig(a.checkpoint_config, a.index_config, initial_config)
      coll == CollectionCast(OrElse(a.collection, merged["collection"]))
      cfg == ConfigConfigure(merged, [checkpoint |-> ckpt_name, collection |-> coll])
      use_gpu == Val(cfg["total_visible_gpus"]) > 0
      mmap == cfg["load_index_with_mmap"]
      ckpt == [name |-> ckpt_name, loaded |-> TRUE, cuda |-> use_gpu, query_maxlen |-> None]
      rk == SelectRanker(a, idx, use_gpu, mmap)
      blank == [pc |-> "Failed", error |-> None, config |-> NoConfig, index |-> idx,
                checkpoint |-> [NoCheckpoint EXCEPT !.name = ckpt_name],
                collection |-> None, warp_engine |-> FALSE, ranker |-> NoRanker]
  IN  IF ~IsSet(ckpt_name)
      THEN [blank EXCEPT !.error = Some("ConfigLoadError")]
      ELSE IF ~IsSet(coll)
      THEN [blank EXCEPT !.error = Some("ConfigLoadError"), !.config = merged]
      ELSE IF InvalidCombination(use_gpu, mmap)
      THEN [blank EXCEPT !.error = Some("ValueError"), !.config = cfg,
                         !.checkpoint = ckpt, !.collection = coll]
      ELSE IF rk.variant = "error"
      THEN [blank EXCEPT !.error = Some("AttributeError"), !.config = cfg,
                         !.checkpoint = ckpt, !.collection = coll,
                         !.warp_engine = a.warp_engine]
      ELSE [pc |-> "Ready", error |-> None, config |-> cfg, index |-> idx,
            checkpoint |-> ckpt, collection |-> coll,
            warp_engine |-> a.warp_engine, ranker |-> rk]

InitWith(A) ==
  /\ args \in A
  /\ pc = "Uninitialized"
  /\ error = None
  /\ config = NoConfig
  /\ index = None
  /\ checkpoint = NoCheckpoint
  /\ collection = None
  /\ warp_engine = FALSE
  /\ ranker = NoRanker
  /\ request = [op |-> "none", k |-> None, queries |-> None, qid_to_pids |-> None]
  /\ encodes = <<>>
  /\ calls = <<>>
  /\ result = [kind |-> "none"]
  /\ explicit = [o \in Breadth |-> None]
  /\ inflight = [t \in Callers |-> Idle]

\* Searcher(index, checkpoint, collection, config, index_root, warp_engine)
Construct ==
  /\ pc = "Uninitialized"
  /\ LET s == Constructed(args)
     IN  /\ pc' = s.pc
         /\ error' = s.error
         /\ config' = s.config
         /\ index' = s.index
         /\ checkpoint' = s.checkpoint
         /\ collection' = s.collection
         /\ warp_engine' = s.warp_engine
         /\ ranker' = s.ranker
  /\ UNCHANGED <<args, inflight, svars>>

InitConstruct == InitWith(ConstructArgs)

NextConstruct == Construct

SpecConstruct == InitConstruct /\ [][NextConstruct]_vars

\* ------------------------------------------------------------ configure
\* Searcher.configure(**kw_args)
Configure(kw) ==
  /\ pc = "Ready"
  /\ config' = ConfigConfigure(config, kw)
  /\ explicit' = [o \in Breadth |-> IF o \in DOMAIN kw THEN kw[o] ELSE explicit[o]]
  /\ request' = [op |-> "configure", k |-> None, queries |-> None, qid_to_pids |-> None]
  /\ encodes' = <<>>
  /\ calls' = <<>>
  /\ result' = [kind |-> "none"]
  /\ error' = None
  /\ UNCHANGED <<args, inflight, pc, index, checkpoint, collection, warp_engine, ranker>>

\* --------------------------------------------------------------- encode
\* the vector the checkpoint computes for one text
Embed(text, full_length_search) == [of |-> text, full_length |-> full_length_search]

\* lines 93-99: the queryFromText invocation of encode(text) and its value;
\* queries is the list of texts (a single text is wrapped into a list)
EncodeCall(queries, full_length_search) ==
  [queries |-> queries,
   bsize |-> IF Len(queries) > 128 THEN Some(128) ELSE None,
   full_length_search |-> full_length_search]

queryFromText(queries, full_length_search) ==
  [i \in 1..Len(queries) |-> Embed(queries[i], full_length_search)]

\* line 96: the tokenizer takes the configured query length
SetQueryMaxlen(ckpt, cfg) == [ckpt EXCEPT !.query_maxlen = cfg["query_maxlen"]]

\* Searcher.encode(text, full_length_search)
Encode(text, full_length_search) ==
  /\ pc = "Ready"
  /\ checkpoint' = SetQueryMaxlen(checkpoint, config)
  /\ encodes' = <<EncodeCall(<<text>>, full_length_search)>>
  /\ result' = [kind |-> "Q", Q |-> queryFromText(<<text>>, full_length_search)]
  /\ request' = [op |-> "encode", k |-> None, queries |-> None, qid_to_pids |-> None]
  /\ calls' = <<>>
  /\ error' = None
  /\ UNCHANGED <<args, inflight, pc, config, index, collection, warp_engine, ranker, explicit>>

\* ---------------------------------------------------------- dense_search
\* the bucket bounds taken as strict
Bucket_StrictBounds(k) ==
  IF k < 10
  THEN [ncells |-> 1, centroid_score_threshold |-> 50, ndocs |-> 256]
  ELSE IF k < 100
  THEN [ncells |-> 2, centroid_score_threshold |-> 45, ndocs |-> 1024]
  ELSE [ncells |-> 4, centroid_score_threshold |-> 40, ndocs |-> Max(k * 4, 4096)]

\* the row of the bucket table the requested k selects (lines 168-188)
Bucket(k) ==
  IF k <= 10
  THEN [ncells |-> 1, centroid_score_threshold |-> 50, ndocs |-> 256]
  ELSE IF k <= 100
  THEN [ncells |-> 2, centroid_score_threshold |-> 45, ndocs |-> 1024]
  ELSE [ncells |-> 4, centroid_score_threshold |-> 40, ndocs |-> Max(k * 4, 4096)]

\* the bucket values written whether or not the option is set
AdaptiveFill_Overwrite(cfg, k) ==
  [o \in Options |-> IF o \in Breadth THEN Some(Bucket(k)[o]) ELSE cfg[o]]

\* the bucket values written only when all three options are None
AdaptiveFill_AllOrNothing(cfg, k) ==
  [o \in Options |->
     IF o \in Breadth /\ \A b \in Breadth : cfg[b] = None
     THEN Some(Bucket(k)[o]) ELSE cfg[o]]

\* lines 168-188: each breadth option that is None takes its bucket value
AdaptiveFill(cfg, k) ==
  [o \in Options |->
     IF o \in Breadth /\ cfg[o] = None THEN Some(Bucket(k)[o]) ELSE cfg[o]]

\* s[:k + 1]
PySlice_Inclusive(s, k) == SubSeq(s, 1, Min(Len(s), k + 1))

\* s[:k]
PySlice(s, k) ==
  IF k >= 0 THEN SubSeq(s, 1, Min(Len(s), k))
  ELSE SubSeq(s, 1, Max(Len(s) + k, 0))

\* list(range(1, k + 1))
PyRange1(k) == [i \in 1..k |-> i]

\* k handed to every backend
RankCall_AlwaysK(cfg, we, Q, k, filter_fn, pids, out) ==
  [config |-> cfg, Q |-> Q, k |-> Some(k),
   filter_fn |-> filter_fn, pids |-> pids, out |-> out]

\* lines 190-197: the rank invocation; the advanced engines receive k
RankCall(cfg, we, Q, k, filter_fn, pids, out) ==
  [config |-> cfg, Q |-> Q, k |-> IF we THEN Some(k) ELSE None,
   filter_fn |-> filter_fn, pids |-> pids, out |-> out]

\* line 199: the returned triple
Trimmed(out, k) ==
  [kind |-> "tuple", pids |-> PySlice(out.pids, k), ranks |-> PyRange1(k),
   scores |-> PySlice(out.scores, k)]

\* the backend called with the configuration as it was before the fill
dense_search_RankBeforeFill(cfg, we, Q, k, filter_fn, pids, out) ==
  LET filled == AdaptiveFill(cfg, k)
  IN  [config |-> filled,
       call |-> RankCall(cfg, we, Q, k, filter_fn, pids, out),
       result |-> IF out.ok THEN Trimmed(out, k)
                  ELSE [kind |-> "error", error |-> "RankingError"]]

\* the fill undone when rank raises
dense_search_Rollback(cfg, we, Q, k, filter_fn, pids, out) ==
  LET filled == AdaptiveFill(cfg, k)
  IN  [config |-> IF out.ok THEN filled ELSE cfg,
       call |-> RankCall(filled, we, Q, k, filter_fn, pids, out),
       result |-> IF out.ok THEN Trimmed(out, k)
                  ELSE [kind |-> "error", error |-> "RankingError"]]

\* Searcher.dense_search(Q, k, filter_fn, pids) on configuration cfg, the
\* backend answering out: the configuration afterwards, the rank invocation
\* and the value returned (kind "error" when rank raised)
dense_search(cfg, we, Q, k, filter_fn, pids, out) ==
  LET filled == AdaptiveFill(cfg, k)
  IN  [config |-> filled,
       call |-> RankCall(filled, we, Q, k, filter_fn, pids, out),
       result |-> IF out.ok THEN Trimmed(out, k)
                  ELSE [kind |-> "error", error |-> "RankingError"]]

ErrorOf(res) == IF res.kind = "error" THEN Some(res.error) ELSE None

DenseSearch(Q, k, filter_fn, pids, out) ==
  /\ pc = "Ready"
  /\ LET r == dense_search(config, warp_engine, Q, k, filter_fn, pids, out)
     IN  /\ config' = r.config
         /\ calls' = <<r.call>>
         /\ result' = r.result
         /\ error' = ErrorOf(r.result)
  /\ request' = [op |-> "dense_search", k |-> Some(k), queries |-> None, qid_to_pids |-> None]
  /\ encodes' = <<>>
  /\ UNCHANGED <<args, inflight, pc, index, checkpoint, collection, warp_engine, ranker, explicit>>

\* Searcher.search(text, k, filter_fn, full_length_search, pids)
Search(text, k, filter_fn, full_length_search, pids, out) ==
  /\ pc = "Ready"
  /\ checkpoint' = SetQueryMaxlen(checkpoint, config)
  /\ encodes' = <<EncodeCall(<<text>>, full_length_search)>>
  /\ LET Q == queryFromText(<<text>>, full_length_search)
         r == dense_search(config, warp_engine, Q, k, filter_fn, pids, out)
     IN  /\ config' = r.config
         /\ calls' = <<r.call>>
         /\ result' = r.result
         /\ error' = ErrorOf(r.result)
  /\ request' = [op |-> "search", k |-> Some(k), queries |-> None, qid_to_pids |-> None]
  /\ UNCHANGED <<args, inflight, pc, index, collection, warp_engine, ranker, explicit>>

\* ------------------------------------------------------------ search_all
\* a Queries object: the ordered (qid, text) items and its provenance
Queries(items) == [items |-> items, provenance |-> <<"Queries", items>>]

Keys(queries) == [i \in 1..Len(queries.items) |-> queries.items[i].qid]

Values(queries) == [i \in 1..Len(queries.items) |-> queries.items[i].text]

Min3(a, b, c) == Min(a, Min(b, c))

\* list(zip(pids, ranks, scores)): as long as the shortest of the three
Zip3(t) ==
  [i \in 1..Min3(Len(t.pids), Len(t.ranks), Len(t.scores)) |->
     [pid |-> t.pids[i], rank |-> t.ranks[i], score |-> t.scores[i]]]

\* config.export(): the values of the configuration at the time of the call
Export(cfg) == [o \in Options |-> cfg[o]]

\* line 138-139: without qid_to_pids every query gets the pool None
PoolMap(qids, qid_to_pids) ==
  IF qid_to_pids = None
  THEN [q \in {qids[i] : i \in 1..Len(qids)} |-> None]
  ELSE Val(qid_to_pids)

\* lines 141-153: the queries are ranked one after the other from position i
\* on; a missing pool entry raises KeyError and a failing rank raises
\* RankingError, and either ends the loop
RECURSIVE SearchLoop(_, _, _, _, _, _, _, _, _, _, _)
SearchLoop(cfg, we, qids, Q, k, filter_fn, pool, outs, i, done, scored) ==
  IF i > Len(qids)
  THEN [config |-> cfg, calls |-> done, scored |-> scored, error |-> None]
  ELSE IF qids[i] \notin DOMAIN pool
  THEN [config |-> cfg, calls |-> done, scored |-> scored, error |-> Some("KeyError")]
  ELSE LET r == dense_search(cfg, we, SubSeq(Q, i, i), k, filter_fn,
                             pool[qids[i]], outs[i])
       IN  IF r.result.kind = "error"
           THEN [config |-> r.config, calls |-> Append(done, r.call),
                 scored |-> scored, error |-> Some(r.result.error)]
           ELSE SearchLoop(r.config, we, qids, Q, k, filter_fn, pool, outs,
                           i + 1, Append(done, r.call),
                           Append(scored, Zip3(r.result)))

\* the results attached to the ids in reverse order
RankingData_Reversed(qids, scored) ==
  [i \in 1..Min(Len(qids), Len(scored)) |->
     [qid |-> qids[i], val |-> scored[Len(scored) + 1 - i]]]

\* line 155: data = {qid: val for qid, val in zip(queries.keys(), all_scored_pids)}
RankingData(qids, scored) ==
  [i \in 1..Min(Len(qids), Len(scored)) |-> [qid |-> qids[i], val |-> scored[i]]]

\* lines 157-161
MakeProvenance(queries, cfg, k) ==
  [source |-> "Searcher::search_all", queries |-> queries.provenance,
   config |-> Export(cfg), k |-> k]

\* the Provenance built from the configuration as it was before the loop
search_all_Q_SnapshotFirst(cfg, we, queries, Q, k, filter_fn, qid_to_pids, outs) ==
  LET qids == Keys(queries)
      loop == SearchLoop(cfg, we, qids, Q, k, filter_fn,
                         PoolMap(qids, qid_to_pids), outs, 1, <<>>, <<>>)
  IN  [config |-> loop.config,
       calls |-> loop.calls,
       result |-> IF IsSet(loop.error)
                  THEN [kind |-> "error", error |-> Val(loop.error)]
                  ELSE [kind |-> "Ranking",
                        data |-> RankingData(qids, loop.scored),
                        provenance |-> MakeProvenance(queries, cfg, k)]]

\* the queries ranked before a failure returned as a Ranking
search_all_Q_Partial(cfg, we, queries, Q, k, filter_fn, qid_to_pids, outs) ==
  LET qids == Keys(queries)
      loop == SearchLoop(cfg, we, qids, Q, k, filter_fn,
                         PoolMap(qids, qid_to_pids), outs, 1, <<>>, <<>>)
  IN  [config |-> loop.config,
       calls |-> loop.calls,
       result |-> [kind |-> "Ranking",
                   data |-> RankingData(qids, loop.scored),
                   provenance |-> MakeProvenance(queries, loop.config, k)]]

\* Searcher._search_all_Q(queries, Q, k, filter_fn, qid_to_pids)
search_all_Q(cfg, we, queries, Q, k, filter_fn, qid_to_pids, outs) ==
  LET qids == Keys(queries)
      loop == SearchLoop(cfg, we, qids, Q, k, filter_fn,
                         PoolMap(qids, qid_to_pids), outs, 1, <<>>, <<>>)
  IN  [config |-> loop.config,
       calls |-> loop.calls,
       result |-> IF IsSet(loop.error)
                  THEN [kind |-> "error", error |-> Val(loop.error)]
                  ELSE [kind |-> "Ranking",
                        data |-> RankingData(qids, loop.scored),
                        provenance |-> MakeProvenance(queries, loop.config, k)]]

\* the encoder called once for each query of the batch
SearchAll_EncodePerQuery(queries, k, filter_fn, full_length_search, qid_to_pids, outs) ==
  /\ pc = "Ready"
  /\ checkpoint' = SetQueryMaxlen(checkpoint, config)
  /\ encodes' = [i \in 1..Len(queries.items) |->
                   EncodeCall(<<queries.items[i].text>>, full_length_search)]
  /\ LET Q == queryFromText(Values(queries), full_length_search)
         r == search_all_Q(config, warp_engine, queries, Q, k, filter_fn,
                           qid_to_pids, outs)
     IN  /\ config' = r.config
         /\ calls' = r.calls
         /\ result' = r.result
         /\ error' = ErrorOf(r.result)
  /\ request' = [op |-> "search_all", k |-> Some(k), queries |-> Some(queries),
                 qid_to_pids |-> qid_to_pids]
  /\ UNCHANGED <<args, inflight, pc, index, collection, warp_engine, ranker, explicit>>

\* Searcher.search_all(queries, k, filter_fn, full_length_search, qid_to_pids)
SearchAll(queries, k, filter_fn, full_length_search, qid_to_pids, outs) ==
  /\ pc = "Ready"
  /\ checkpoint' = SetQueryMaxlen(checkpoint, config)
  /\ encodes' = <<EncodeCall(Values(queries), full_length_search)>>
  /\ LET Q == queryFromText(Values(queries), full_length_search)
         r == search_all_Q(config, warp_engine, queries, Q, k, filter_fn,
                           qid_to_pids, outs)
     IN  /\ config' = r.config
         /\ calls' = r.calls
         /\ result' = r.result
         /\ error' = ErrorOf(r.result)
  /\ request' = [op |-> "search_all", k |-> Some(k), queries |-> Some(queries), qid_to_pids |-> qid_to_pids]
  /\ UNCHANGED <<args, inflight, pc, index, collection, warp_engine, ranker, explicit>>

\* ------------------------------------------------------- backend answers
\* rank raised
RankingFails == [ok |-> FALSE, pids |-> <<>>, scores |-> <<>>]

\* a backend answer of n documents n, n-1, .., 1 with scores 10n, .., 10
Ret(n) ==
  [ok |-> TRUE, pids |-> [i \in 1..n |-> n + 1 - i],
   scores |-> [i \in 1..n |-> 10 * (n + 1 - i)]]

Docs == 1..MaxBackendLen

\* the lists of distinct documents of length 0..MaxBackendLen
PidLists ==
  { s \in UNION { [1..n -> Docs] : n \in 0..MaxBackendLen } :
      \A i, j \in 1..Len(s) : i # j => s[i] # s[j] }

\* every backend answer of the model: distinct documents in any order, with
\* scores in descending order
BackendReturns ==
  { [ok |-> TRUE, pids |-> s,
     scores |-> [i \in 1..Len(s) |-> 10 * (Len(s) + 1 - i)]] : s \in PidLists }

\* ----------------------------------------------------------- specification
\* requested result counts, one in each bucket
KValues == {5, 50, 500}

\* requested result counts on both sides of every bucket boundary and of
\* the point where 4*k overtakes 4096
KBoundaries == {1, 10, 11, 100, 101, 1024, 1025}

\* requested result counts around the lengths the backend returns
KSmall == {1, 2, MaxBackendLen + 1}

\* the Searchers the search specifications start from: a WARPRunConfig, CPU
\* compute, with and without the advanced engine, every worker count
SearchArgs ==
  [ config : { [kind |-> "WARPRunConfig", options |-> NoConfig,
                t_prime |-> Some(1000), bound |-> Some(128), fused_ext |-> TRUE] },
    run : { [NoConfig EXCEPT !["total_visible_gpus"] = Some(0),
                             !["index_root"] = Some("root_run"),
                             !["query_maxlen"] = Some(32)] },
    index_config : { [NoConfig EXCEPT !["checkpoint"] = Some("ck_index"),
                                      !["collection"] = Some(Path("col_index"))] },
    checkpoint_config : {NoConfig},
    index : {"idx"},
    checkpoint : {None},
    collection : {None},
    index_root : {None},
    warp_engine : BOOLEAN,
    num_threads : 1..MaxThreads ]

\* configure calls: each breadth option put to a value or back to None
BreadthKw ==
  { "ncells" :> None, "ncells" :> Some(8),
    "centroid_score_threshold" :> None, "centroid_score_threshold" :> Some(30),
    "ndocs" :> None, "ndocs" :> Some(2000) }

PolicyOuts == {RankingFails, Ret(2)}

PolicyBatches ==
  { Queries(<<[qid |-> "a", text |-> "cats"], [qid |-> "b", text |-> "dogs"]>>),
    Queries(<<[qid |-> "b", text |-> "dogs"]>>) }

\* the Searchers the result specification starts from
ResultArgs == { a \in SearchArgs : a.num_threads = 1 }

\* the backend's answers in a batch: rank raised, one document, or
\* MaxBackendLen documents
BatchOuts == {RankingFails, Ret(1), Ret(MaxBackendLen)}

Qids == {"a", "b"}

\* the batches of one or two of the queries a: cats, b: dogs, in either order
Batches ==
  LET a == [qid |-> "a", text |-> "cats"]
      b == [qid |-> "b", text |-> "dogs"]
  IN  { Queries(<<a>>), Queries(<<b>>), Queries(<<a, b>>), Queries(<<b, a>>) }

\* candidate pools of one query
Pools == {None, Some({1, 2})}

\* qid_to_pids arguments: absent, a pool for every id, a pool for "a" only
PoolMaps ==
  { None,
    Some([q \in Qids |-> IF q = "a" THEN Some({1}) ELSE None]),
    Some([q \in {"a"} |-> Some({1})]) }

\* the encoded query a caller of dense_search passes
CatsQ == {queryFromText(<<"cats">>, FALSE)}

\* ---- Spec: every operation, with a k in each bucket
Init == InitWith(SearchArgs)

Next ==
  \/ Construct
  \/ \E kw \in BreadthKw : Configure(kw)
  \/ \E fls \in BOOLEAN : Encode("cats", fls)
  \/ \E k \in KValues, Q \in CatsQ, out \in PolicyOuts :
       DenseSearch(Q, k, None, None, out)
  \/ \E k \in KValues, out \in PolicyOuts :
       Search("cats", k, None, FALSE, None, out)
  \/ \E qs \in PolicyBatches, k \in KValues :
       \E outs \in [1..Len(qs.items) -> PolicyOuts] :
         SearchAll(qs, k, None, FALSE, None, outs)

Spec == Init /\ [][Next]_vars

\* ---- SpecBuckets: configure and dense_search with k at the bucket boundaries
InitBuckets == InitWith(ResultArgs)

NextBuckets ==
  \/ Construct
  \/ \E kw \in BreadthKw : Configure(kw)
  \/ \E k \in KBoundaries, Q \in CatsQ, out \in {Ret(2)} :
       DenseSearch(Q, k, None, None, out)

SpecBuckets == InitBuckets /\ [][NextBuckets]_vars

\* ---- SpecResults: every operation, with every backend answer and a small k
InitResults == InitWith(ResultArgs)

NextResults ==
  \/ Construct
  \/ Encode("dogs", FALSE)
  \/ \E k \in KSmall, Q \in CatsQ, out \in BackendReturns \cup {RankingFails} :
       DenseSearch(Q, k, None, None, out)
  \/ \E k \in KSmall, p \in Pools, out \in BatchOuts :
       Search("dogs", k, None, FALSE, p, out)
  \/ \E qs \in Batches, k \in KSmall, m \in PoolMaps :
       \E outs \in [1..Len(qs.items) -> BatchOuts] :
         SearchAll(qs, k, None, FALSE, m, outs)

SpecResults == InitResults /\ [][NextResults]_vars

\* ------------------------------------------------------------ properties
SearchOps == {"dense_search", "search", "search_all"}

AllSet(cfg) == \A o \in Breadth : IsSet(cfg[o])

AllUnset(cfg) == \A o \in Breadth : ~IsSet(cfg[o])

BreadthOf(cfg) == <<cfg["ncells"], cfg["centroid_score_threshold"], cfg["ndocs"]>>

\* C1: once a first call has filled ncells, centroid_score_threshold and
\* ndocs, every later dense_search call, whatever its k, leaves the three
\* values as they are and hands exactly them to the backend.
C1_StickyDefaults ==
  [][ (request'.op = "dense_search" /\ AllSet(config))
        => /\ BreadthOf(config') = BreadthOf(config)
           /\ \A i \in 1..Len(calls') : BreadthOf(calls'[i].config) = BreadthOf(config) ]_vars

\* a dense_search with k=500 that ran with the values of the k <= 10 bucket,
\* none of them set by configure
C1_Witness ==
  /\ request.op = "dense_search"
  /\ request.k = Some(500)
  /\ \A o \in Breadth : explicit[o] = None
  /\ Len(calls) = 1
  /\ BreadthOf(calls[1].config) = <<Some(1), Some(50), Some(256)>>

\* C2: a breadth option set by configure keeps its value through every
\* dense_search, search and search_all call; a call that reaches the backend
\* changes an option if and only if it was unset, and leaves every option set.
C2_ExplicitKept ==
  [][ request'.op \in SearchOps
        => \A o \in Breadth :
             /\ IsSet(explicit[o]) => config'[o] = explicit[o]
             /\ IsSet(config[o]) => config'[o] = config[o]
             /\ Len(calls') > 0 =>
                  /\ IsSet(config'[o])
                  /\ (config'[o] # config[o]) <=> ~IsSet(config[o]) ]_vars

\* a search with k=500 after configure(ndocs=2000): ndocs kept, ncells filled
C2_Witness ==
  /\ request.op \in SearchOps
  /\ request.k = Some(500)
  /\ Len(calls) > 0
  /\ explicit["ndocs"] = Some(2000)
  /\ config["ndocs"] = Some(2000)
  /\ explicit["ncells"] = None
  /\ config["ncells"] = Some(4)

\* C3: a dense_search that finds all three breadth options unset fills them
\* with the row of its k: (1, 0.5, 256) for k <= 10, (2, 0.45, 1024) for
\* 10 < k <= 100, (4, 0.4, 4096) for 100 < k <= 1024 and (4, 0.4, 4*k) above.
C3_BucketTable ==
  [][ (request'.op = "dense_search" /\ AllUnset(config))
        => LET k == Val(request'.k)
               row == BreadthOf(config')
           IN  /\ k <= 10 => row = <<Some(1), Some(50), Some(256)>>
               /\ (k > 10 /\ k <= 100) => row = <<Some(2), Some(45), Some(1024)>>
               /\ (k > 100 /\ k <= 1024) => row = <<Some(4), Some(40), Some(4096)>>
               /\ k > 1024 => row = <<Some(4), Some(40), Some(4 * k)>> ]_vars

\* a dense_search with k=1025 filled ndocs with 4100
C3_Witness ==
  /\ request.op = "dense_search"
  /\ request.k = Some(1025)
  /\ \A o \in Breadth : explicit[o] = None
  /\ BreadthOf(config) = <<Some(4), Some(40), Some(4100)>>

\* the constructor got past loading the index and checkpoint configurations
Loaded == pc # "Uninitialized" /\ error # Some("ConfigLoadError")

GpuWithMmap ==
  /\ IsSet(config["total_visible_gpus"])
  /\ Val(config["total_visible_gpus"]) > 0
  /\ Truthy(config["load_index_with_mmap"])

\* C4: GPU compute together with a memory-mapped index fails construction
\* with the invalid-configuration error before a backend exists, and every
\* other combination of compute mode, memory-map flag, engine request, worker
\* count and kind of caller config constructs the Searcher.
C4_OnlyGpuMmapFails ==
  Loaded =>
    IF GpuWithMmap
    THEN pc = "Failed" /\ error = Some("ValueError") /\ ranker = NoRanker
    ELSE pc = "Ready"

AdvancedVariants == {"IndexScorerWARP", "ParallelIndexScorerWARP"}

\* C5: a construction that passes the GPU/memory-map check builds the
\* multi-worker advanced variant (with the configured fused flag) when the
\* advanced engine is requested with more than one worker, the single-worker
\* advanced variant when it is requested with one worker, and the baseline
\* variant when it is not requested.
C5_EngineSelection ==
  (Loaded /\ error # Some("ValueError")) =>
    /\ (args.warp_engine /\ args.num_threads > 1) =>
         /\ ranker.variant = "ParallelIndexScorerWARP"
         /\ ranker.fused_decompression_merge = Some(args.config.fused_ext)
    /\ (args.warp_engine /\ args.num_threads = 1) =>
         ranker.variant = "IndexScorerWARP"
    /\ ~args.warp_engine => ranker.variant = "IndexScorer"

\* C6: dense_search returns as ids and scores the first min(n, k) entries of
\* the backend's n ids and scores, in the backend's order.
C6_Truncated ==
  (request.op = "dense_search" /\ result.kind = "tuple") =>
    LET out == calls[1].out
        k == Val(request.k)
        m == Min(Len(out.pids), k)
    IN  /\ Len(result.pids) = m
        /\ Len(result.scores) = m
        /\ m <= k
        /\ \A i \in 1..m : result.pids[i] = out.pids[i] /\ result.scores[i] = out.scores[i]

\* the backend returned more than k=2 documents, not in id order
C6_Witness ==
  /\ request.op = "dense_search"
  /\ request.k = Some(2)
  /\ result.kind = "tuple"
  /\ Len(calls[1].out.pids) > 2
  /\ result.pids = <<3, 1>>

\* C7: the ids, ranks and scores dense_search and search return have the
\* same length, and the ranks are 1..min(n, k) for a backend return of n.
C7_EqualLengths ==
  (request.op \in {"dense_search", "search"} /\ result.kind = "tuple") =>
    LET m == Min(Len(calls[1].out.pids), Val(request.k))
    IN  /\ Len(result.pids) = Len(result.ranks)
        /\ Len(result.ranks) = Len(result.scores)
        /\ result.ranks = [i \in 1..m |-> i]

\* C8: the Ranking search_all returns lists the batch's query ids in the
\* batch's order, each with the trimmed answer the backend gave for that
\* query's own vector, and its Provenance carries the requested k and the
\* batch's provenance.
C8_RankingOfBatch ==
  (request.op = "search_all" /\ result.kind = "Ranking") =>
    LET qs == Val(request.queries)
        k == Val(request.k)
    IN  /\ Len(result.data) = Len(qs.items)
        /\ Len(calls) = Len(qs.items)
        /\ \A i \in 1..Len(qs.items) :
             LET out == calls[i].out
                 val == result.data[i].val
             IN  /\ result.data[i].qid = qs.items[i].qid
                 /\ calls[i].Q = <<Embed(qs.items[i].text, encodes[1].full_length_search)>>
                 /\ Len(val) = Min(Len(out.pids), k)
                 /\ \A j \in 1..Len(val) :
                      val[j] = [pid |-> out.pids[j], rank |-> j, score |-> out.scores[j]]
        /\ result.provenance.k = k
        /\ result.provenance.queries = qs.provenance

\* the batch (b, a) ranked with different answers for its two queries
C8_Witness ==
  /\ request.op = "search_all"
  /\ result.kind = "Ranking"
  /\ Len(result.data) = 2
  /\ result.data[1].qid = "b"
  /\ result.data[2].qid = "a"
  /\ Len(result.data[1].val) # Len(result.data[2].val)

\* option o is set in the caller's config and in neither stored config
OnlyCaller(o) ==
  /\ args.config.kind # "None"
  /\ IsSet(args.config.options[o])
  /\ ~IsSet(args.checkpoint_config[o])
  /\ ~IsSet(args.index_config[o])

\* C9: every option, checkpoint and collection included, that is set only in
\* the caller's config has the caller's value in the effective Configuration
\* (a collection path counting as unchanged when it is cast to a Collection).
C9_CallerOptionWins ==
  pc = "Ready" =>
    \A o \in Options :
      OnlyCaller(o) =>
        config[o] = IF o = "collection" THEN CollectionCast(args.config.options[o])
                    ELSE args.config.options[o]

\* C9 as amended: that holds for every option other than checkpoint and
\* collection; checkpoint holds the checkpoint argument or else the index
\* config's checkpoint, and collection holds the Collection cast from the
\* collection argument or else from the merged collection option.
C9_CallerOptionWinsExcept ==
  pc = "Ready" =>
    /\ \A o \in Options \ {"checkpoint", "collection"} :
         OnlyCaller(o) => config[o] = args.config.options[o]
    /\ config["checkpoint"] = OrElse(args.checkpoint, args.index_config["checkpoint"])
    /\ IsSet(config["collection"])
    /\ Val(config["collection"]).kind = "Collection"
    /\ IsSet(args.collection) => Val(config["collection"]).name = Val(args.collection).name

\* the caller's ndocs beat the process's while its checkpoint gave way to
\* the checkpoint argument
C9_Witness ==
  /\ pc = "Ready"
  /\ OnlyCaller("ndocs")
  /\ args.run["ndocs"] = Some(512)
  /\ config["ndocs"] = Some(2000)
  /\ OnlyCaller("checkpoint")
  /\ config["checkpoint"] = Some("ck_arg")

\* C10: after construction no call changes the backend, and a rank
\* invocation carries k if and only if the backend is an advanced variant.
C10_VariantFixed ==
  [][ /\ pc = "Ready" => (ranker' = ranker /\ warp_engine' = warp_engine)
      /\ \A i \in 1..Len(calls') :
           /\ IsSet(calls'[i].k) <=> ranker'.variant \in AdvancedVariants
           /\ IsSet(calls'[i].k) => calls'[i].k = request'.k ]_vars

\* a batch of two queries ranked by the baseline variant without k
C10_Witness ==
  /\ request.op = "search_all"
  /\ Len(calls) = 2
  /\ ranker.variant = "IndexScorer"
  /\ calls[1].k = None
  /\ calls[2].k = None

\* C11: the Configuration every rank invocation receives has ncells,
\* centroid_score_threshold and ndocs set, in any sequence of configure and
\* search calls, configure putting an option back to unset included.
C11_FilledBeforeRank ==
  \A i \in 1..Len(calls) : AllSet(calls[i].config)

\* rank received ncells of the k > 100 bucket beside the other two values of
\* the k <= 10 bucket, none of them configured: ncells was put back to unset
\* after a first fill and filled again by a call with k=500
C11_Witness ==
  /\ request.op \in SearchOps
  /\ request.k = Some(500)
  /\ Len(calls) > 0
  /\ \A o \in Breadth : explicit[o] = None
  /\ BreadthOf(calls[1].config) = <<Some(4), Some(50), Some(256)>>

\* the pool the claim gives the query with id q: its entry in qid_to_pids,
\* no pool when the mapping is absent or has no entry for q
PoolFor(qid_to_pids, q) ==
  IF IsSet(qid_to_pids) /\ q \in DOMAIN Val(qid_to_pids)
  THEN Val(qid_to_pids)[q]
  ELSE None

\* C12: in search_all every query whose id has no entry in qid_to_pids (the
\* mapping absent, or covering only some of the ids) is ranked without a
\* pool, and every query that has an entry is ranked with exactly that pool.
C12_PoolPerQuery ==
  request.op = "search_all" =>
    LET qs == Val(request.queries)
    IN  /\ error # Some("KeyError")
        /\ \A i \in 1..Len(calls) :
             calls[i].pids = PoolFor(request.qid_to_pids, qs.items[i].qid)
        /\ error = None => Len(calls) = Len(qs.items)

\* C13: search_all calls the encoder once, with the texts of the whole
\* batch, and then ranks the queries in batch order, the i-th rank invocation
\* receiving only the vector of the i-th query; a call that returns ranks
\* every query exactly once, and its Provenance holds the configuration as
\* it is after the last query's rank.
C13_EncodeOnceRankEach ==
  request.op = "search_all" =>
    LET qs == Val(request.queries)
        n == Len(qs.items)
    IN  /\ Len(encodes) = 1
        /\ encodes[1].queries = Values(qs)
        /\ Len(calls) <= n
        /\ \A i \in 1..Len(calls) :
             calls[i].Q = <<Embed(qs.items[i].text, encodes[1].full_length_search)>>
        /\ result.kind = "Ranking" =>
             /\ Len(calls) = n
             /\ result.provenance.config = Export(calls[n].config)

\* a batch of two queries ranked: one encoder call, two rank invocations
C13_Witness ==
  /\ request.op = "search_all"
  /\ result.kind = "Ranking"
  /\ Len(encodes) = 1
  /\ Len(encodes[1].queries) = 2
  /\ Len(calls) = 2
  /\ calls[1].Q # calls[2].Q

\* C14: when rank fails for the i-th query of a search_all call, the call
\* ends with the RankingError: the failed invocation is the last one (no
\* later query is ranked, none is ranked again), and the value of the call
\* is the error alone, without Ranking data and without a Provenance.
C14_FailureAbortsBatch ==
  request.op = "search_all" =>
    \A i \in 1..Len(calls) :
      ~calls[i].out.ok =>
        /\ i = Len(calls)
        /\ error = Some("RankingError")
        /\ result = [kind |-> "error", error |-> "RankingError"]
        /\ \A j \in 1..i :
             calls[j].Q = <<Embed(Val(request.queries).items[j].text,
                                  encodes[1].full_length_search)>>

\* a batch of two queries whose first query was ranked and whose second
\* query's rank failed
C14_Witness ==
  /\ request.op = "search_all"
  /\ Len(Val(request.queries).items) = 2
  /\ Len(calls) = 2
  /\ calls[1].out.ok
  /\ ~calls[2].out.ok
  /\ result.kind = "error"

\* C17: the configuration stored in the Provenance of a search_all that
\* ranked its batch has ncells, centroid_score_threshold and ndocs set, to
\* the values every rank invocation of the batch received; an option the
\* call found unset holds the bucket value of the call's k.
C17_SnapshotAfterRanking ==
  [][ (request'.op = "search_all" /\ result'.kind = "Ranking")
        => LET snap == result'.provenance.config
           IN  /\ Len(calls') > 0
               /\ \A o \in Breadth :
                    /\ IsSet(snap[o])
                    /\ \A i \in 1..Len(calls') : calls'[i].config[o] = snap[o]
                    /\ ~IsSet(config[o]) =>
                         snap[o] = Some(Bucket(Val(request'.k))[o]) ]_vars

\* a batch of two queries with k=50 ranked on a Searcher whose breadth
\* options were all unset: the Provenance holds the row of k=50
C17_Witness ==
  /\ request.op = "search_all"
  /\ request.k = Some(50)
  /\ result.kind = "Ranking"
  /\ Len(calls) = 2
  /\ \A o \in Breadth : explicit[o] = None
  /\ BreadthOf(result.provenance.config) = <<Some(2), Some(45), Some(1024)>>

\* C18: a dense_search whose rank fails leaves the values it filled in the
\* Configuration, and the dense_search after a failed one hands the
\* Configuration's values to the backend whatever its own k.
C18_FillSurvivesFailure ==
  [][ request'.op = "dense_search"
        => /\ error' = Some("RankingError") =>
                \A o \in Breadth :
                  config'[o] = IF IsSet(config[o]) THEN config[o]
                               ELSE Some(Bucket(Val(request'.k))[o])
           /\ (request.op = "dense_search" /\ error = Some("RankingError")) =>
                /\ BreadthOf(calls'[1].config) = BreadthOf(config)
                /\ BreadthOf(config') = BreadthOf(config) ]_vars

\* a dense_search with k=5 whose rank failed on a Searcher whose breadth
\* options were all unset: the row of k <= 10 is in the Configuration
C18_FailedWitness ==
  /\ request.op = "dense_search"
  /\ request.k = Some(5)
  /\ error = Some("RankingError")
  /\ \A o \in Breadth : explicit[o] = None
  /\ BreadthOf(config) = <<Some(1), Some(50), Some(256)>>

\* ------------------------------------------- dense_search, step by step
\* lines 168-188: the order in which a bucket tests the breadth options
BreadthOrder == <<"ncells", "centroid_score_threshold", "ndocs">>

\* the statement after the test or the configure of the option at c.o: the
\* test of the next option, the rank invocation after the last one
AfterOption(c) ==
  IF c.o < Len(BreadthOrder)
  THEN [c EXCEPT !.at = "check", !.o = c.o + 1]
  ELSE [c EXCEPT !.at = "rank", !.o = 0]

\* line 165: caller t enters dense_search(Q, k) and stands before the first
\* test of the bucket of k
StartDenseSearch(t, k) ==
  /\ pc = "Ready"
  /\ inflight[t].at = "idle"
  /\ inflight' = [inflight EXCEPT
                    ![t] = [at |-> "check", o |-> 1, k |-> Some(k), wrote |-> {}]]
  /\ UNCHANGED <<args, pc, error, config, index, checkpoint, collection,
                 warp_engine, ranker, svars>>

\* the configure reached whether or not the option is None
CheckUnset_Always(t) ==
  /\ inflight[t].at = "check"
  /\ inflight' = [inflight EXCEPT ![t] = [@ EXCEPT !.at = "set"]]
  /\ UNCHANGED <<args, pc, error, config, index, checkpoint, collection,
                 warp_engine, ranker, svars>>

\* `if self.config.<option> is None:` of caller t: on to the configure of
\* the option if it is None, on to the next statement otherwise
CheckUnset(t) ==
  /\ inflight[t].at = "check"
  /\ inflight' = [inflight EXCEPT
                    ![t] = IF config[BreadthOrder[@.o]] = None
                           THEN [@ EXCEPT !.at = "set"]
                           ELSE AfterOption(@)]
  /\ UNCHANGED <<args, pc, error, config, index, checkpoint, collection,
                 warp_engine, ranker, svars>>

\* `self.configure(<option>=<bucket value>)` of caller t
SetDefault(t) ==
  /\ inflight[t].at = "set"
  /\ LET c == inflight[t]
         o == BreadthOrder[c.o]
     IN  /\ config' = ConfigConfigure(config, o :> Some(Bucket(Val(c.k))[o]))
         /\ inflight' = [inflight EXCEPT
                           ![t] = AfterOption([c EXCEPT !.wrote = @ \cup {o}])]
  /\ UNCHANGED <<args, pc, error, index, checkpoint, collection, warp_engine,
                 ranker, svars>>

\* lines 190-199 of caller t: the rank invocation on the Configuration as
\* it stands, the backend answering out, and the return
RankAndReturn(t, Q, out) ==
  /\ inflight[t].at = "rank"
  /\ LET k == Val(inflight[t].k)
     IN  /\ calls' = <<RankCall(config, warp_engine, Q, k, None, None, out)>>
         /\ result' = IF out.ok THEN Trimmed(out, k)
                      ELSE [kind |-> "error", error |-> "RankingError"]
         /\ error' = IF out.ok THEN None ELSE Some("RankingError")
         /\ request' = [op |-> "dense_search", k |-> Some(k), queries |-> None,
                        qid_to_pids |-> None]
  /\ encodes' = <<>>
  /\ inflight' = [inflight EXCEPT ![t] = [@ EXCEPT !.at = "idle", !.o = 0]]
  /\ UNCHANGED <<args, pc, config, index, checkpoint, collection, warp_engine,
                 ranker, explicit>>

\* ---- SpecConcurrent: two callers in dense_search on one Searcher, their
\* statements interleaved in every order
InitConcurrent == InitWith(ResultArgs)

NextConcurrent ==
  \/ Construct
  \/ \E t \in Callers, k \in KValues : StartDenseSearch(t, k)
  \/ \E t \in Callers : CheckUnset(t)
  \/ \E t \in Callers : SetDefault(t)
  \/ \E t \in Callers, Q \in CatsQ, out \in PolicyOuts : RankAndReturn(t, Q, out)

SpecConcurrent == InitConcurrent /\ [][NextConcurrent]_vars

\* C15: with two dense_search calls interleaved freely, a breadth option
\* that holds a value keeps it: no configure of the adaptive policy replaces
\* a value the other call's policy has set.
C15_NeverOverwritten ==
  [][ \A o \in Breadth : IsSet(config[o]) => config'[o] = config[o] ]_vars

\* C15 as amended: a call goes on to the configure of an option only when
\* its own test found the option None, and a value is replaced only by the
\* configure of a call that stood between its test and its configure of
\* that option when the value was set; each call writes an option at most
\* once.
C15_OverwrittenOnlyAfterStaleCheck ==
  [][ /\ \A t \in Callers :
           (inflight[t].at = "check" /\ inflight'[t].at = "set")
             => /\ inflight'[t].o = inflight[t].o
                /\ config[BreadthOrder[inflight[t].o]] = None
      /\ \A o \in Breadth :
           config'[o] # config[o]
             => \E t \in Callers :
                  /\ inflight[t].at = "set"
                  /\ BreadthOrder[inflight[t].o] = o
                  /\ o \notin inflight[t].wrote
                  /\ inflight'[t].wrote = inflight[t].wrote \cup {o}
                  /\ config'[o] = Some(Bucket(Val(inflight[t].k))[o]) ]_vars

\* both callers have written ncells in the calls they are in, with k=5 and
\* k=500: the value of one of them has been replaced
C15_Witness ==
  /\ inflight["t1"].k = Some(5)
  /\ inflight["t2"].k = Some(500)
  /\ "ncells" \in inflight["t1"].wrote
  /\ "ncells" \in inflight["t2"].wrote
  /\ inflight["t1"].at # "idle"
  /\ inflight["t2"].at # "idle"

\* ---------------------------------------- configure of the compute options
\* configure calls on the GPU count and the memory-map flag
ValidityKw ==
  { "load_index_with_mmap" :> Some(b) : b \in BOOLEAN }
    \cup { "total_visible_gpus" :> Some(g) : g \in 0..MaxGpus }

\* ---- SpecValidity: every operation, configure reaching the compute options
InitValidity == InitWith(ResultArgs)

NextValidity ==
  \/ Construct
  \/ \E kw \in ValidityKw : Configure(kw)
  \/ \E k \in KValues, Q \in CatsQ, out \in PolicyOuts :
       DenseSearch(Q, k, None, None, out)
  \/ \E k \in KValues, out \in PolicyOuts :
       Search("cats", k, None, FALSE, None, out)
  \/ \E qs \in PolicyBatches, k \in KValues :
       \E outs \in [1..Len(qs.items) -> PolicyOuts] :
         SearchAll(qs, k, None, FALSE, None, outs)

SpecValidity == InitValidity /\ [][NextValidity]_vars

\* C16: in every state after a successful construction, whatever configure,
\* search, search_all and dense_search calls were made, the Configuration
\* does not hold a GPU count above zero together with the memory-map flag.
C16_NoGpuWithMmap ==
  pc = "Ready" => ~GpuWithMmap

====
